---------------------------- MODULE Spec2Model ----------------------------
(***************************************************************************)
(* A model of og-check (src/src/index.ts): command-line parsing, the HTTP  *)
(* fetch with its redirect loop and request timers, the regex-based        *)
(* metadata extractor, the entity decoder, the rule-based validator and    *)
(* the exit code of main.                                                  *)
(*                                                                         *)
(* Strings are sequences of one-character strings, so that startsWith,     *)
(* indexOf, slice, length, parseInt and the global replaces are computed   *)
(* character by character.  The fixed pieces of a template literal (the    *)
(* text around a ${...}) are kept as single atoms.                         *)
(***************************************************************************)
EXTENDS Integers, Sequences, FiniteSets, TLC

VARIABLES
    pc,         \* position of the process: "start", "fetching", "exited"
    argv,       \* process.argv.slice(2): a sequence of strings
    exitCode,   \* -1 while running, else the code the process ended with
    report,     \* what was written: "none", "help", "usage", "invalid", "error", "json-error", "json", "terminal"
    errMsg,     \* err.message printed on the error path ("" if none)
    ciMode,     \* !!args['ci'] of the run
    jsonOutput, \* !!args['json'] of the run
    timeout,    \* the timeout option of the requests, in ticks (0: none)
    promise,    \* the promise of fetchUrl: "none", "pending", "resolved", "rejected"
    requests,   \* the URLs of the HTTP requests issued so far, in order
    redirects,  \* the redirects argument of the doFetch call of the in-flight request
    phase,      \* the in-flight request: "none", "sent" (no response yet), "body" (reading the body)
    chunks,     \* data chunks received of the body being read
    idle,       \* ticks since the last activity on the in-flight request's socket
    stale,      \* the idle ticks of the open sockets of redirected requests (their responses are never read)
    elapsed,    \* ticks since fetchUrl was called
    doc,        \* the document handed to parseHtml (response.body)
    tags,       \* the MetadataMap
    pageUrl,    \* the url argument of validateTags (response.finalUrl)
    result,     \* what validateTags produced: [threw, issues], or NoResult
    text,       \* input of decodeHtmlEntities
    decoded     \* its output, or NotDecoded

vars == <<pc, argv, exitCode, report, errMsg, ciMode, jsonOutput, timeout, promise, requests, redirects,
          phase, chunks, idle, stale, elapsed, doc, tags, pageUrl, result, text, decoded>>

-----------------------------------------------------------------------------
(* Strings *)

StartsWith(s, p) == Len(s) >= Len(p) /\ SubSeq(s, 1, Len(p)) = p

Slice(s, from) == SubSeq(s, from, Len(s))

\* String.prototype.indexOf for a single character, 1-based; 0 when absent.
IndexOf(s, ch) ==
    IF \E i \in 1..Len(s) : s[i] = ch
    THEN CHOOSE i \in 1..Len(s) : s[i] = ch /\ \A j \in 1..(i - 1) : s[j] # ch
    ELSE 0

RECURSIVE Concat(_)
Concat(ss) == IF ss = <<>> THEN <<>> ELSE Head(ss) \o Concat(Tail(ss))

Repeat(ch, n) == [i \in 1..n |-> ch]

S_http == <<"h", "t", "t", "p">>
S_httpColon == <<"h", "t", "t", "p", ":", "/", "/">>
S_httpsColon == <<"h", "t", "t", "p", "s", ":", "/", "/">>
S_dashdash == <<"-", "-">>

-----------------------------------------------------------------------------
(* decodeHtmlEntities *)

\* String.prototype.replace with a global regex of a literal pattern: the
\* matches are found left to right and do not overlap; the replacement text
\* is not scanned again by the same replace.
RECURSIVE ReplaceAll(_, _, _)
ReplaceAll(s, pat, rep) ==
    IF Len(s) < Len(pat) THEN s
    ELSE IF SubSeq(s, 1, Len(pat)) = pat
         THEN rep \o ReplaceAll(Slice(s, Len(pat) + 1), pat, rep)
         ELSE <<s[1]>> \o ReplaceAll(Tail(s), pat, rep)

E_amp == <<"&", "a", "m", "p", ";">>
E_lt == <<"&", "l", "t", ";">>
E_gt == <<"&", "g", "t", ";">>
E_quot == <<"&", "q", "u", "o", "t", ";">>
E_39 == <<"&", "#", "3", "9", ";">>
E_x27 == <<"&", "#", "x", "2", "7", ";">>
E_x2F == <<"&", "#", "x", "2", "F", ";">>
E_nbsp == <<"&", "n", "b", "s", "p", ";">>

\* The eight entities with their literal characters, in the order of the code.
Entities ==
    << <<E_amp, <<"&">> >>, <<E_lt, <<"<">> >>, <<E_gt, <<">">> >>,
       <<E_quot, <<"\"">> >>, <<E_39, <<"'">> >>, <<E_x27, <<"'">> >>,
       <<E_x2F, <<"/">> >>, <<E_nbsp, <<" ">> >> >>

\* text.replace(/&amp;/g,'&').replace(/&lt;/g,'<')...: eight global replaces,
\* each applied to the output of the one before it.
decodeHtmlEntities(s) ==
    ReplaceAll(ReplaceAll(ReplaceAll(ReplaceAll(ReplaceAll(ReplaceAll(ReplaceAll(ReplaceAll(
        s, E_amp, <<"&">>), E_lt, <<"<">>), E_gt, <<">">>), E_quot, <<"\"">>),
        E_39, <<"'">>), E_x27, <<"'">>), E_x2F, <<"/">>), E_nbsp, <<" ">>)

NotDecoded == <<"(not decoded)">>

-----------------------------------------------------------------------------
(* parseInt *)

DigitChars == {"0", "1", "2", "3", "4", "5", "6", "7", "8", "9"}

DigitVal(ch) ==
    CASE ch = "0" -> 0 [] ch = "1" -> 1 [] ch = "2" -> 2 [] ch = "3" -> 3
      [] ch = "4" -> 4 [] ch = "5" -> 5 [] ch = "6" -> 6 [] ch = "7" -> 7
      [] ch = "8" -> 8 [] ch = "9" -> 9

RECURSIVE SkipWs(_)
SkipWs(s) == IF s # <<>> /\ s[1] = " " THEN SkipWs(Tail(s)) ELSE s

RECURSIVE ParseDigits(_, _)
ParseDigits(s, acc) ==
    IF s # <<>> /\ s[1] \in DigitChars
    THEN ParseDigits(Tail(s), acc * 10 + DigitVal(s[1]))
    ELSE acc

NaN == [nan |-> TRUE, val |-> 0]

\* parseInt(str) with no radix: leading white space is skipped, a sign is
\* read, then the longest run of decimal digits; what follows is ignored;
\* NaN when there is no digit.  (The 0x prefix is not modelled: no input of
\* the model has it.)
parseInt(s) ==
    LET t == SkipWs(s)
        neg == t # <<>> /\ t[1] = "-"
        u == IF t # <<>> /\ t[1] \in {"-", "+"} THEN Tail(t) ELSE t
    IN  IF u = <<>> \/ u[1] \notin DigitChars
        THEN NaN
        ELSE [nan |-> FALSE, val |-> (IF neg THEN -1 ELSE 1) * ParseDigits(u, 0)]

\* The < of JavaScript on a parseInt result and a number: false when NaN.
NumLt(a, n) == ~a.nan /\ a.val < n

-----------------------------------------------------------------------------
(* The WHATWG URL constructor, for the strings the model uses *)

Letters == {"a", "b", "c", "d", "e", "f", "g", "h", "i", "j", "k", "l", "m", "n",
            "o", "p", "q", "r", "s", "t", "u", "v", "w", "x", "y", "z"}

\* Code points a host may not hold.
ForbiddenHost == {" ", "<", ">", "^", "|", "\"", "'"}

InvalidUrl == [ok |-> FALSE]

\* The scheme of s (the letters before the first ":"), or <<>> when s has none.
SchemeOf(s) ==
    LET i == IndexOf(s, ":")
    IN  IF i > 1 /\ \A j \in 1..(i - 1) : s[j] \in Letters THEN SubSeq(s, 1, i - 1) ELSE <<>>

RECURSIVE SkipSlashes(_)
SkipSlashes(s) == IF s # <<>> /\ s[1] = "/" THEN SkipSlashes(Tail(s)) ELSE s

\* host[:port][path] of a special (http, https) URL: the host must be
\* non-empty and free of forbidden code points, the port all digits.
ParseAuthority(scheme, rest) ==
    LET slash == IndexOf(rest, "/")
        auth == IF slash = 0 THEN rest ELSE SubSeq(rest, 1, slash - 1)
        path == IF slash = 0 THEN <<"/">> ELSE Slice(rest, slash)
        colon == IndexOf(auth, ":")
        host == IF colon = 0 THEN auth ELSE SubSeq(auth, 1, colon - 1)
        port == IF colon = 0 THEN <<>> ELSE Slice(auth, colon + 1)
    IN  IF host = <<>> \/ (\E i \in 1..Len(host) : host[i] \in ForbiddenHost)
           \/ (\E i \in 1..Len(port) : port[i] \notin DigitChars)
        THEN InvalidUrl
        ELSE [ok |-> TRUE, scheme |-> scheme, host |-> host, port |-> port, path |-> path]

\* new URL(s): s needs a scheme; after http: or https: the slashes are
\* skipped and the authority parsed; another scheme gives an opaque URL
\* (the special schemes other than http and https are not modelled: no
\* input of the model has one).
ParseUrl(s) ==
    LET scheme == SchemeOf(s)
        rest == Slice(s, Len(scheme) + 2)
    IN  IF scheme = <<>> THEN InvalidUrl
        ELSE IF scheme \in {S_http, S_http \o <<"s">>}
             THEN ParseAuthority(scheme, SkipSlashes(rest))
             ELSE [ok |-> TRUE, scheme |-> scheme, host |-> <<>>, port |-> <<>>, path |-> rest]

\* The path of base up to and including its last "/".
RECURSIVE DirOf(_)
DirOf(path) ==
    IF path = <<>> THEN <<"/">>
    ELSE IF path[Len(path)] = "/" THEN path
    ELSE DirOf(SubSeq(path, 1, Len(path) - 1))

\* new URL(rel, base) for a parsed http(s) base: an absolute reference is
\* parsed alone; "//..." is scheme-relative (a new authority, which must
\* parse); "/..." replaces the path; anything else is merged with the
\* directory of the base path.
ResolveUrl(rel, base) ==
    IF SchemeOf(rel) # <<>> THEN ParseUrl(rel)
    ELSE IF StartsWith(rel, <<"/", "/">>) THEN ParseAuthority(base.scheme, Slice(rel, 3))
    ELSE IF StartsWith(rel, <<"/">>) THEN [base EXCEPT !.path = rel]
    ELSE [base EXCEPT !.path = DirOf(base.path) \o rel]

\* URL.prototype.toString()
UrlToString(u) ==
    IF u.scheme \in {S_http, S_http \o <<"s">>}
    THEN u.scheme \o <<":", "/", "/">> \o u.host
         \o (IF u.port = <<>> THEN <<>> ELSE <<":">> \o u.port) \o u.path
    ELSE u.scheme \o <<":">> \o u.path

-----------------------------------------------------------------------------
(* validateTags *)

\* A MetadataMap is a function from the keys found to their values.
\* !tags[k] of JavaScript: the key is absent or its value is the empty string.
Truthy(t, k) == k \in DOMAIN t /\ t[k] # <<>>

\* tags[k] || dflt
OrElse(t, k, dflt) == IF Truthy(t, k) THEN t[k] ELSE dflt

Issue(tag, problem, fix, severity) ==
    [tag |-> tag, problem |-> problem, fix |-> fix, severity |-> severity]

TitleMax == 95
DescriptionMax == 300
MinDimension == 200

PlaceholderTitle == <<"Your Page Title">>
PlaceholderDescription == <<"A brief description of your page">>

\* `${n}` of a parseInt result
NumText(a) == IF a.nan THEN "NaN" ELSE ToString(a.val)

OgTitleRule(t) ==
    IF ~Truthy(t, "og:title")
    THEN << Issue("og:title", <<"Missing og:title.">>,
                  <<"<meta property=\"og:title\" content=\"">>
                      \o OrElse(t, "title", PlaceholderTitle) \o <<"\" />">>,
                  "error") >>
    ELSE IF Len(t["og:title"]) > TitleMax
    THEN << Issue("og:title",
                  <<"og:title is ", ToString(Len(t["og:title"])), " chars.">>,
                  <<"Shorten your og:title to under 60 characters for best display.">>,
                  "warning") >>
    ELSE <<>>

OgDescriptionRule(t) ==
    IF ~Truthy(t, "og:description")
    THEN << Issue("og:description", <<"Missing og:description.">>,
                  <<"<meta property=\"og:description\" content=\"">>
                      \o OrElse(t, "description", PlaceholderDescription) \o <<"\" />">>,
                  "error") >>
    ELSE IF Len(t["og:description"]) > DescriptionMax
    THEN << Issue("og:description",
                  <<"og:description is ", ToString(Len(t["og:description"])), " chars.">>,
                  <<"Shorten your og:description to under 200 characters.">>,
                  "warning") >>
    ELSE <<>>

\* Line 307: the fix of the relative-image issue is built with
\* new URL(tags['og:image'], url), which throws on a reference that does not
\* parse against the page URL.
ImageFixThrows(t, url) ==
    /\ Truthy(t, "og:image")
    /\ ~StartsWith(t["og:image"], S_http)
    /\ ~ResolveUrl(t["og:image"], ParseUrl(url)).ok

OgImageAbsoluteRule(t, url) ==
    IF ~StartsWith(t["og:image"], S_http)
    THEN << Issue("og:image", <<"og:image should be an absolute URL.">>,
                  <<"<meta property=\"og:image\" content=\"">>
                      \o UrlToString(ResolveUrl(t["og:image"], ParseUrl(url)))
                      \o <<"\" />">>,
                  "error") >>
    ELSE <<>>

\* The dimension check with && in place of ||.
OgImageDimensionRuleBoth(t) ==
    IF ~Truthy(t, "og:image:width") \/ ~Truthy(t, "og:image:height")
    THEN << Issue("og:image:width/height",
                  <<"Missing og:image:width and og:image:height.">>,
                  <<"<meta property=\"og:image:width\" content=\"1200\" />">>, "warning") >>
    ELSE LET w == parseInt(t["og:image:width"])
             h == parseInt(t["og:image:height"])
         IN  IF NumLt(w, MinDimension) /\ NumLt(h, MinDimension)
             THEN << Issue("og:image",
                           <<"Image is ", NumText(w), "x", NumText(h), "px.">>,
                           <<"Use an image that's at least 1200x630px for best results.">>,
                           "warning") >>
             ELSE <<>>

OgImageDimensionRule(t) ==
    IF ~Truthy(t, "og:image:width") \/ ~Truthy(t, "og:image:height")
    THEN << Issue("og:image:width/height",
                  <<"Missing og:image:width and og:image:height.">>,
                  <<"<meta property=\"og:image:width\" content=\"1200\" />">>, "warning") >>
    ELSE LET w == parseInt(t["og:image:width"])
             h == parseInt(t["og:image:height"])
         IN  IF NumLt(w, MinDimension) \/ NumLt(h, MinDimension)
             THEN << Issue("og:image",
                           <<"Image is ", NumText(w), "x", NumText(h), "px.">>,
                           <<"Use an image that's at least 1200x630px for best results.">>,
                           "warning") >>
             ELSE <<>>

OgImageAltRule(t) ==
    IF ~Truthy(t, "og:image:alt")
    THEN << Issue("og:image:alt", <<"Missing og:image:alt.">>,
                  <<"<meta property=\"og:image:alt\" content=\"Description of the image\" />">>,
                  "info") >>
    ELSE <<>>

\* The og:image rules with the alt-text check pushed before the dimension check.
OgImageRuleAltFirst(t, url) ==
    IF ~Truthy(t, "og:image")
    THEN << Issue("og:image", <<"Missing og:image.">>,
                  <<"<meta property=\"og:image\" content=\"https://yoursite.com/og-image.png\" />">>,
                  "error") >>
    ELSE OgImageAbsoluteRule(t, url) \o OgImageAltRule(t) \o OgImageDimensionRule(t)

OgImageRule(t, url) ==
    IF ~Truthy(t, "og:image")
    THEN << Issue("og:image", <<"Missing og:image.">>,
                  <<"<meta property=\"og:image\" content=\"https://yoursite.com/og-image.png\" />">>,
                  "error") >>
    ELSE OgImageAbsoluteRule(t, url) \o OgImageDimensionRule(t) \o OgImageAltRule(t)

\* A rule of the form: if (!tags[key]) issues.push(...)
MissingRule(t, key, fix, severity) ==
    IF ~Truthy(t, key)
    THEN << Issue(key, <<"Missing ", key>>, fix, severity) >>
    ELSE <<>>

\* The twitter:title rule without its og:title fallback.
TwitterTitleRuleAlone(t) ==
    IF ~Truthy(t, "twitter:title")
    THEN << Issue("twitter:title", <<"No twitter:title or og:title.">>,
                  <<"<meta name=\"twitter:title\" content=\"Your Page Title\" />">>, "error") >>
    ELSE <<>>

TwitterTitleRule(t) ==
    IF ~Truthy(t, "twitter:title") /\ ~Truthy(t, "og:title")
    THEN << Issue("twitter:title", <<"No twitter:title or og:title.">>,
                  <<"<meta name=\"twitter:title\" content=\"Your Page Title\" />">>, "error") >>
    ELSE <<>>

TwitterImageRule(t) ==
    IF ~Truthy(t, "twitter:image") /\ ~Truthy(t, "og:image")
    THEN << Issue("twitter:image", <<"No twitter:image or og:image.">>,
                  <<"<meta name=\"twitter:image\" content=\"https://yoursite.com/twitter-image.png\" />">>,
                  "warning") >>
    ELSE <<>>

\* validateTags(tags, url): the issues in the order the rules push them, or
\* threw = TRUE when line 307 throws (no issue sequence is returned then).
validateTags(t, url) ==
    IF ImageFixThrows(t, url)
    THEN [threw |-> TRUE, issues |-> <<>>]
    ELSE [threw |-> FALSE,
          issues |->
              OgTitleRule(t) \o OgDescriptionRule(t) \o OgImageRule(t, url)
              \o MissingRule(t, "og:url",
                     <<"<meta property=\"og:url\" content=\"">> \o url \o <<"\" />">>, "warning")
              \o MissingRule(t, "og:type",
                     <<"<meta property=\"og:type\" content=\"website\" />">>, "info")
              \o MissingRule(t, "twitter:card",
                     <<"<meta name=\"twitter:card\" content=\"summary_large_image\" />">>, "warning")
              \o TwitterTitleRule(t) \o TwitterImageRule(t)
              \o MissingRule(t, "title", <<"<title>Your Page Title</title>">>, "warning")
              \o MissingRule(t, "description",
                     <<"<meta name=\"description\" content=\"A brief description\" />">>, "info")
              \o MissingRule(t, "canonical",
                     <<"<link rel=\"canonical\" href=\"">> \o url \o <<"\" />">>, "info")]

NoResult == [threw |-> FALSE, issues |-> << Issue("(none)", <<>>, <<>>, "(none)") >>]

HasError(issues) == \E i \in 1..Len(issues) : issues[i].severity = "error"

-----------------------------------------------------------------------------
(* parseHtml *)

\* A document is the sequence of its elements in document order; an element
\* is [el, attrs, text]: the tag name, the attributes in the order written
\* (each [n |-> name, v |-> value]) and, for <title>, the text inside.  The
\* value of a property, name or rel attribute is kept as one atom (the model
\* never looks inside a key); a content or href value is a string.

Attr(n, v) == [n |-> n, v |-> v]
Meta(attrs) == [el |-> "meta", attrs |-> attrs, text |-> <<>>]
Title(txt) == [el |-> "title", attrs |-> <<>>, text |-> txt]
Link(attrs) == [el |-> "link", attrs |-> attrs, text |-> <<>>]

\* toLowerCase on a key atom
LowerAtom(a) ==
    CASE a = "OG:Title" -> "og:title"
      [] a = "Description" -> "description"
      [] a = "Canonical" -> "canonical"
      [] OTHER -> a

\* String.prototype.trim
RECURSIVE TrimEnd(_)
TrimEnd(s) == IF s # <<>> /\ s[Len(s)] = " " THEN TrimEnd(SubSeq(s, 1, Len(s) - 1)) ELSE s
Trim(s) == TrimEnd(SkipWs(s))

\* tags[key] = val
Put(t, key, val) == [k \in DOMAIN t \cup {key} |-> IF k = key THEN val ELSE t[k]]

EmptyTags == [k \in {} |-> <<>>]

\* The indexes of the elements of html that satisfy P, in document order.
FirstIndex(S) == CHOOSE i \in S : \A j \in S : i <= j
LastIndex(S) == CHOOSE i \in S : \A j \in S : i >= j

\* /<title[^>]*>([^<]*)<\/title>/i, first match
TitleStep(html, t) ==
    LET S == {i \in 1..Len(html) : html[i].el = "title"}
    IN  IF S = {} THEN t
        ELSE Put(t, "title", decodeHtmlEntities(Trim(html[FirstIndex(S)].text)))

\* One turn of the while loop over metaRegex: the key is the first property
\* or name attribute with a non-empty value, lower-cased; the content is the
\* first content attribute; the entry is written when both are there.
MetaStep(e, t) ==
    LET K == {i \in 1..Len(e.attrs) : e.attrs[i].n \in {"property", "name"} /\ e.attrs[i].v # <<>>}
        C == {i \in 1..Len(e.attrs) : e.attrs[i].n = "content"}
    IN  IF e.el = "meta" /\ K # {} /\ C # {}
        THEN Put(t, LowerAtom(e.attrs[FirstIndex(K)].v[1]),
                 decodeHtmlEntities(e.attrs[FirstIndex(C)].v))
        ELSE t

RECURSIVE MetaScan(_, _)
MetaScan(html, t) ==
    IF html = <<>> THEN t ELSE MetaScan(Tail(html), MetaStep(Head(html), t))

\* The positions j of a vn attribute that has, before it (after = FALSE) or
\* after it (after = TRUE), a kn attribute whose value is one of kvs.
Captures(attrs, kn, kvs, vn, after) ==
    {j \in 1..Len(attrs) :
        /\ attrs[j].n = vn
        /\ \E i \in 1..Len(attrs) :
              /\ IF after THEN i > j ELSE i < j
              /\ attrs[i].n = kn
              /\ Len(attrs[i].v) = 1
              /\ LowerAtom(attrs[i].v[1]) \in kvs}

\* html.match(re1) || html.match(re2), where re1 wants the key attribute
\* before the value attribute and re2 after it: each match is the leftmost
\* element that fits, and inside it the greedy [^>]* takes the last value
\* attribute that fits.  <<>> when there is no match, else <<value>>.
MatchEitherOrder(html, el, kn, kvs, vn, both) ==
    LET M1 == {i \in 1..Len(html) :
                  html[i].el = el /\ Captures(html[i].attrs, kn, kvs, vn, FALSE) # {}}
        M2 == {i \in 1..Len(html) :
                  html[i].el = el /\ Captures(html[i].attrs, kn, kvs, vn, TRUE) # {}}
    IN  IF M1 # {}
        THEN LET a == html[FirstIndex(M1)].attrs
             IN  << a[LastIndex(Captures(a, kn, kvs, vn, FALSE))].v >>
        ELSE IF both /\ M2 # {}
        THEN LET a == html[FirstIndex(M2)].attrs
             IN  << a[LastIndex(Captures(a, kn, kvs, vn, TRUE))].v >>
        ELSE <<>>

\* Lines 224-228: the second scan for the meta description.
DescriptionStep(html, t) ==
    LET m == MatchEitherOrder(html, "meta", "name", {"description"}, "content", TRUE)
    IN  IF m = <<>> THEN t ELSE Put(t, "description", decodeHtmlEntities(m[1]))

\* Lines 231-235: the canonical link (its href is not decoded).
CanonicalStep(html, t) ==
    LET m == MatchEitherOrder(html, "link", "rel", {"canonical"}, "href", TRUE)
    IN  IF m = <<>> THEN t ELSE Put(t, "canonical", m[1])

\* Lines 238-241: the favicon (rel before href only).
FaviconStep(html, t) ==
    LET m == MatchEitherOrder(html, "link", "rel", {"icon", "shortcut icon"}, "href", FALSE)
    IN  IF m = <<>> THEN t ELSE Put(t, "favicon", m[1])

parseHtml(html) ==
    FaviconStep(html, CanonicalStep(html, DescriptionStep(html,
        MetaScan(html, TitleStep(html, EmptyTags)))))

-----------------------------------------------------------------------------
(* parseArgs *)

\* A value of the args record: the boolean true, or a string.
ArgTrue == [isTrue |-> TRUE, str |-> <<>>]
ArgStr(s) == [isTrue |-> FALSE, str |-> s]

K_url == <<"_", "u", "r", "l">>
K_help == <<"h", "e", "l", "p">>
K_json == <<"j", "s", "o", "n">>
K_ci == <<"c", "i">>
K_timeout == <<"t", "i", "m", "e", "o", "u", "t">>

\* The for loop of parseArgs from index i (1-based) on.
RECURSIVE ParseArgsFrom(_, _, _, _)
ParseArgsFrom(av, i, args, positional) ==
    IF i > Len(av)
    THEN IF Len(positional) > 0 THEN Put(args, K_url, ArgStr(positional[1])) ELSE args
    ELSE LET arg == av[i]
             eqIdx == IndexOf(arg, "=")
         IN  IF StartsWith(arg, S_dashdash)
             THEN IF eqIdx # 0
                  THEN ParseArgsFrom(av, i + 1,
                           Put(args, SubSeq(arg, 3, eqIdx - 1), ArgStr(Slice(arg, eqIdx + 1))),
                           positional)
                  ELSE IF i + 1 <= Len(av) /\ ~StartsWith(av[i + 1], <<"-">>)
                  THEN ParseArgsFrom(av, i + 2,
                           Put(args, Slice(arg, 3), ArgStr(av[i + 1])), positional)
                  ELSE ParseArgsFrom(av, i + 1, Put(args, Slice(arg, 3), ArgTrue), positional)
             ELSE ParseArgsFrom(av, i + 1, args, Append(positional, arg))

parseArgs(av) == ParseArgsFrom(av, 1, [k \in {} |-> ArgTrue], <<>>)

\* The truthiness of args[k]
ArgSet(args, k) == k \in DOMAIN args /\ (args[k].isTrue \/ args[k].str # <<>>)

-----------------------------------------------------------------------------
(* main and fetchUrl *)

\* The redirect cap off by one.
MaxRedirectsLoose == 5 + 1

MaxRedirects == 5
DefaultTimeout == 10000

\* Bounds of the model: the clock stops at MaxElapsed ticks, and a body
\* arrives in at most MaxBodyChunks data events.
MaxElapsed == 3
MaxBodyChunks == 1

\* The normalization with the white space of the argument dropped.
NormalizeUrlLenient(targetUrl) ==
    ParseUrl(S_httpsColon \o SelectSeq(targetUrl, LAMBDA ch : ch # " "))

\* new URL(targetUrl.startsWith('http') ? targetUrl : `https://${targetUrl}`)
NormalizeUrl(targetUrl) ==
    ParseUrl(IF StartsWith(targetUrl, S_http) THEN targetUrl ELSE S_httpsColon \o targetUrl)

\* parseInt((args['timeout'] as string) || '10000'); a boolean true is
\* converted to the string "true" by parseInt.
TimeoutOf(args) ==
    IF ArgSet(args, K_timeout)
    THEN IF args[K_timeout].isTrue THEN NaN ELSE parseInt(args[K_timeout].str)
    ELSE [nan |-> FALSE, val |-> DefaultTimeout]

\* The process ends: what it wrote and its exit code.  Its sockets and
\* their timers end with it.
Exit(rep, msg, code) ==
    /\ pc' = "exited"
    /\ report' = rep
    /\ errMsg' = msg
    /\ exitCode' = code
    /\ phase' = "none"
    /\ chunks' = 0
    /\ idle' = 0
    /\ stale' = {}

\* The catch block of main (lines 604-616), reached when checkUrl rejects.
ErrorExit(msg) == Exit(IF jsonOutput' THEN "json-error" ELSE "error", msg, 1)

NoPageState == <<doc, tags, pageUrl, result>>
NoDecodeState == <<text, decoded>>
RunOptions == <<argv, ciMode, jsonOutput, timeout>>

\* main up to the await of checkUrl: parseArgs, --help, the URL checks, the
\* options, and the first doFetch(targetUrl, 0) of fetchUrl.
Main ==
    /\ pc = "start"
    /\ LET args == parseArgs(argv)
           targetUrl == IF K_url \in DOMAIN args THEN args[K_url].str ELSE <<>>
           parsedUrl == NormalizeUrl(targetUrl)
           t == TimeoutOf(args)
       IN  /\ UNCHANGED <<argv, NoPageState, NoDecodeState>>
           /\ IF ArgSet(args, K_help)
              THEN /\ Exit("help", "", 0)
                   /\ UNCHANGED <<ciMode, jsonOutput, timeout, promise, requests, redirects, elapsed>>
              ELSE IF targetUrl = <<>>
              THEN /\ Exit("usage", "URL is required.", 1)
                   /\ UNCHANGED <<ciMode, jsonOutput, timeout, promise, requests, redirects, elapsed>>
              ELSE IF ~parsedUrl.ok
              THEN /\ Exit("invalid", "Invalid URL", 1)
                   /\ UNCHANGED <<ciMode, jsonOutput, timeout, promise, requests, redirects, elapsed>>
              ELSE /\ jsonOutput' = ArgSet(args, K_json)
                   /\ ciMode' = ArgSet(args, K_ci)
                   /\ UNCHANGED <<redirects, elapsed>>
                   /\ IF t.nan \/ t.val < 0
                      THEN \* http.request throws on a timeout that is no duration
                           /\ timeout' = 0
                           /\ promise' = "rejected"
                           /\ ErrorExit("ERR_OUT_OF_RANGE")
                           /\ UNCHANGED requests
                      ELSE /\ timeout' = t.val
                           /\ promise' = "pending"
                           /\ requests' = <<UrlToString(parsedUrl)>>
                           /\ phase' = "sent"
                           /\ pc' = "fetching"
                           /\ UNCHANGED <<report, errMsg, exitCode, chunks, idle, stale>>

\* The continuation of checkUrl and main once fetchUrl has resolved with
\* body and finalUrl: parseHtml, validateTags, the output, the exit code.
\* A throw of validateTags lands in the catch block of main.
Resume(body, finalUrl) ==
    LET t == parseHtml(body)
        r == validateTags(t, finalUrl)
    IN  /\ doc' = body
        /\ tags' = t
        /\ pageUrl' = finalUrl
        /\ result' = r
        /\ IF r.threw
           THEN ErrorExit("Invalid URL")
           ELSE Exit(IF jsonOutput' THEN "json" ELSE "terminal", "",
                     IF ciMode' /\ HasError(r.issues) THEN 1 ELSE 0)

\* A timer that fires one tick late.
RunningLate(i) == timeout = 0 \/ i <= timeout

\* The timer of a socket is still running: it has not been idle for the
\* whole timeout (a timeout of 0 sets no timer).
Running(i) == timeout = 0 \/ i < timeout

Current == requests[Len(requests)]

\* One tick of the clock, while no timer is due.
Tick ==
    /\ pc = "fetching"
    /\ elapsed < MaxElapsed
    /\ Running(idle)
    /\ \A i \in stale : Running(i)
    /\ elapsed' = elapsed + 1
    /\ idle' = idle + 1
    /\ stale' = {i + 1 : i \in stale}
    /\ UNCHANGED <<pc, exitCode, report, errMsg, RunOptions, promise, requests, redirects,
                   phase, chunks, NoPageState, NoDecodeState>>

\* The Location headers the server of url answers with: a relative reference
\* (each hop then has a URL of its own) and one that no URL parser accepts;
\* host a also sends to host b with an absolute URL.
U_b == S_httpsColon \o <<"b">>
Locations(url) ==
    { <<"p", "/">>, <<"/", "/">> } \cup (IF ParseUrl(url).host = <<"a">> THEN {U_b} ELSE {})

\* The response callback on a 3xx response with a Location header (lines
\* 155-161): the location is resolved and doFetch(location, redirects + 1)
\* is called, which rejects beyond MaxRedirects and else issues the next
\* request.  The response is not read and its request not destroyed, so the
\* timer of its socket keeps running.  A location that does not parse throws
\* inside the callback: an uncaught exception, which ends the process.
\* keep: the server leaves the connection of the redirected request open
\* (a connection it closes has no timer left to fire).
RespondRedirect(loc, keep) ==
    /\ pc = "fetching"
    /\ phase = "sent"
    /\ Running(idle)
    /\ UNCHANGED <<RunOptions, NoPageState, NoDecodeState, elapsed>>
    /\ LET resolved == ResolveUrl(loc, ParseUrl(Current))
           absolute == StartsWith(loc, S_http)
       IN  IF ~absolute /\ ~resolved.ok
           THEN /\ Exit("crash", "Invalid URL", 1)
                /\ UNCHANGED <<promise, requests, redirects>>
           ELSE LET location == IF absolute THEN loc ELSE UrlToString(resolved)
                IN  /\ redirects' = redirects + 1
                    /\ IF redirects + 1 > MaxRedirects
                       THEN /\ promise' = "rejected"
                            /\ ErrorExit("Too many redirects")
                            /\ UNCHANGED requests
                       ELSE IF ~ParseUrl(location).ok
                       THEN /\ Exit("crash", "Invalid URL", 1)
                            /\ UNCHANGED <<promise, requests>>
                       ELSE /\ requests' = Append(requests, location)
                            /\ idle' = 0
                            /\ stale' = IF keep THEN stale \cup {0} ELSE stale
                            /\ UNCHANGED <<pc, exitCode, report, errMsg, promise, phase, chunks>>

Redirect ==
    /\ pc = "fetching"
    /\ \E keep \in BOOLEAN : \E loc \in Locations(Current) : RespondRedirect(loc, keep)

\* The response callback on any other response: the body listeners are set.
RespondFinal ==
    /\ pc = "fetching"
    /\ phase = "sent"
    /\ Running(idle)
    /\ phase' = "body"
    /\ idle' = 0
    /\ UNCHANGED <<pc, exitCode, report, errMsg, RunOptions, promise, requests, redirects,
                   chunks, stale, elapsed, NoPageState, NoDecodeState>>

\* res.on('data'): a chunk of the body arrives.
Data ==
    /\ pc = "fetching"
    /\ phase = "body"
    /\ Running(idle)
    /\ chunks < MaxBodyChunks
    /\ chunks' = chunks + 1
    /\ idle' = 0
    /\ UNCHANGED <<pc, exitCode, report, errMsg, RunOptions, promise, requests, redirects,
                   phase, stale, elapsed, NoPageState, NoDecodeState>>

\* finalUrl: fetchUrl (line 175), the URL of the doFetch call that got the
\* response.
FinalUrl == Current

\* res.on('end'): fetchUrl resolves with the body and finalUrl.
End(body) ==
    /\ pc = "fetching"
    /\ phase = "body"
    /\ Running(idle)
    /\ promise' = "resolved"
    /\ UNCHANGED <<RunOptions, requests, redirects, elapsed, NoDecodeState>>
    /\ Resume(body, FinalUrl)

\* req.on('timeout') of the in-flight request: req.destroy() and reject.
Timeout ==
    /\ pc = "fetching"
    /\ ~Running(idle)
    /\ promise' = "rejected"
    /\ UNCHANGED <<RunOptions, requests, redirects, elapsed, NoPageState, NoDecodeState>>
    /\ ErrorExit("Request timed out")

\* req.on('timeout') of a redirected request, which no one destroyed: the
\* same handler rejects the promise of the fetch.
StaleTimeout ==
    /\ pc = "fetching"
    /\ \E i \in stale : ~Running(i)
    /\ promise' = "rejected"
    /\ UNCHANGED <<RunOptions, requests, redirects, elapsed, NoPageState, NoDecodeState>>
    /\ ErrorExit("Request timed out")

NetworkErrors == {"ENOTFOUND"}

\* req.on('error', reject) before a response has come.
RequestError(code) ==
    /\ pc = "fetching"
    /\ phase = "sent"
    /\ Running(idle)
    /\ promise' = "rejected"
    /\ UNCHANGED <<RunOptions, requests, redirects, elapsed, NoPageState, NoDecodeState>>
    /\ ErrorExit(code)

-----------------------------------------------------------------------------
(* The inputs of a run *)

A_url == S_httpsColon \o <<"a">>
A_bare == <<"a">>
A_space == <<"a", " ", "b">>
F_json == S_dashdash \o K_json
F_ci == S_dashdash \o K_ci
F_help == S_dashdash \o K_help
F_timeout == S_dashdash \o K_timeout
F_timeout2 == S_dashdash \o K_timeout \o <<"=", "2">>
N_2 == <<"2">>

\* The command lines of the runs.
ArgvSet ==
    { <<>>, <<A_url>>, <<A_bare>>, <<A_space>>, <<S_http>>, <<F_help>>, <<A_url, F_help>>,
      <<F_ci, A_url>>, <<A_url, F_timeout>>, <<A_url, F_json>>,
      <<A_url, F_ci, F_timeout2>>, <<A_bare, F_timeout, N_2>> }

V_title == <<"T", "i">>
V_desc == <<"D", "e">>
V_image == S_httpsColon \o <<"a", "/", "i">>

M(k, v) == Meta(<<Attr("property", <<k>>), Attr("content", v)>>)
N(k, v) == Meta(<<Attr("name", <<k>>), Attr("content", v)>>)

\* A page with every checked tag, one with the three required tags only,
\* one without og:title, and one whose og:image is "//".
D_full ==
    << Title(V_title), M("og:title", V_title), M("og:description", V_desc),
       M("og:image", V_image), M("og:image:width", <<"1", "2", "0", "0">>),
       M("og:image:height", <<"6", "3", "0">>), M("og:image:alt", V_desc),
       M("og:url", A_url), M("og:type", <<"w">>), N("twitter:card", <<"s">>),
       N("description", V_desc),
       Link(<<Attr("rel", <<"canonical">>), Attr("href", A_url)>>) >>
D_required == << M("og:title", V_title), M("og:description", V_desc), M("og:image", V_image) >>
D_noTitle == << M("og:description", V_desc), M("og:image", V_image) >>
D_badImage == << M("og:title", V_title), M("og:description", V_desc), M("og:image", <<"/", "/">>) >>
Bodies == {D_full, D_required, D_noTitle, D_badImage}

NoPage ==
    /\ doc = <<>>
    /\ tags = EmptyTags
    /\ pageUrl = <<>>
    /\ result = NoResult

NoFetch ==
    /\ promise = "none"
    /\ requests = <<>>
    /\ redirects = 0
    /\ phase = "none"
    /\ chunks = 0
    /\ idle = 0
    /\ stale = {}
    /\ elapsed = 0

NoRun ==
    /\ exitCode = -1
    /\ report = "none"
    /\ errMsg = ""
    /\ ciMode = FALSE
    /\ jsonOutput = FALSE
    /\ timeout = 0

NoDecode ==
    /\ text = <<>>
    /\ decoded = NotDecoded

Init ==
    /\ pc = "start"
    /\ argv \in ArgvSet
    /\ NoRun
    /\ NoFetch
    /\ NoPage
    /\ NoDecode

Next ==
    \/ Main
    \/ Tick
    \/ Redirect
    \/ RespondFinal
    \/ Data
    \/ \E body \in Bodies : End(body)
    \/ Timeout
    \/ StaleTimeout
    \/ \E code \in NetworkErrors : RequestError(code)

Spec == Init /\ [][Next]_vars

-----------------------------------------------------------------------------
(* The pipeline: exit codes, the redirect cap, the timeout, usage errors *)

UsageReports == {"usage", "invalid"}
FetchFailed == promise = "rejected" \/ report = "crash"

\* C1: a finished run has exit code 1 exactly when the URL was missing or
\* invalid, or the fetch failed, or --ci is set and an issue has severity
\* error; every other run (help included) ends with 0.
C1_ExitCodeExactly ==
    pc = "exited" =>
        /\ exitCode \in {0, 1}
        /\ exitCode = 1 <=>
              \/ report \in UsageReports
              \/ FetchFailed
              \/ ciMode /\ HasError(result.issues)

\* C2: fetchUrl follows at most 5 redirects: a 6th redirect rejects with
\* 'Too many redirects' and no 7th request is issued; a fetch that resolves
\* followed n <= 5 redirects, issued n + 1 requests and has finalUrl = the
\* URL of the last request issued.
C2_RedirectCap ==
    /\ Len(requests) <= 6
    /\ errMsg = "Too many redirects" <=> redirects = 6
    /\ redirects = 6 => promise = "rejected" /\ Len(requests) = 6
    /\ redirects <= 6
    /\ promise = "resolved" =>
          /\ redirects <= 5
          /\ Len(requests) = redirects + 1
          /\ pageUrl = requests[Len(requests)]

C2_Witness == promise = "resolved" /\ redirects = 5 /\ pageUrl # requests[1]

\* C3 as stated: no fetch that takes longer than the timeout in total
\* succeeds.
C3_TimeoutBoundsWholeFetch ==
    promise = "resolved" /\ timeout > 0 => elapsed <= timeout

\* C3 amended: the timeout is the idle timeout of each request.  While the
\* fetch is pending no socket of it (the in-flight request's, or the open
\* one of a redirected request) is idle for longer than the timeout; the
\* fetch fails with 'Request timed out' only at the moment one of them has
\* been idle for exactly the timeout; and every new hop starts with a fresh
\* timer.
C3_TimeoutIsPerRequest ==
    /\ [](pc = "fetching" /\ timeout > 0 =>
             idle <= timeout /\ \A i \in stale : i <= timeout)
    /\ [][errMsg' = "Request timed out" /\ errMsg # "Request timed out" =>
             timeout > 0 /\ (idle = timeout \/ timeout \in stale)]_vars
    /\ [][Len(requests') > Len(requests) => idle' = 0]_vars

C3_Witness == promise = "resolved" /\ timeout > 0 /\ elapsed > timeout /\ redirects > 0

\* The arguments that are not options, in order.
Positionals(av) == SelectSeq(av, LAMBDA a : ~StartsWith(a, <<"-">>))

\* No --help, and no URL argument or one that is no URL once https:// is
\* put before a missing scheme.
UsageErrorCase ==
    /\ \A i \in 1..Len(argv) : argv[i] # F_help
    /\ \/ Positionals(argv) = <<>>
       \/ ~ParseUrl(IF StartsWith(Positionals(argv)[1], S_http)
                    THEN Positionals(argv)[1]
                    ELSE S_httpsColon \o Positionals(argv)[1]).ok

\* C4: a usage error never reaches the network: with the URL missing or
\* invalid, no request is ever issued, and the run ends with a message on
\* stderr and exit code 1.
C4_UsageErrorNoNetwork ==
    UsageErrorCase =>
        /\ requests = <<>>
        /\ promise = "none"
        /\ pc # "fetching"
        /\ pc = "exited" => exitCode = 1 /\ report \in UsageReports

C4_Witness == pc = "exited" /\ UsageErrorCase /\ report = "invalid"

\* C8: validation never fails a run: once the fetch has resolved,
\* validateTags returns an issue sequence, the run ends on the success path,
\* and without --ci the exit code is 0.
C8_ValidationNeverFails ==
    promise = "resolved" =>
        /\ ~result.threw
        /\ report \in {"json", "terminal"}
        /\ ~ciMode => exitCode = 0

BooleanFlags == {F_json, F_ci, F_help}

\* The command line is one URL and boolean flags, in any order.
UrlAndBooleanFlags(av) ==
    /\ Len(Positionals(av)) = 1
    /\ \A i \in 1..Len(av) : StartsWith(av[i], <<"-">>) => av[i] \in BooleanFlags

\* What parseArgs yields for it when no flag takes the URL as its value.
ArgsOf(av) ==
    [k \in {K_url} \cup {Slice(av[i], 3) : i \in {j \in 1..Len(av) : av[j] \in BooleanFlags}} |->
        IF k = K_url THEN ArgStr(Positionals(av)[1]) ELSE ArgTrue]

\* C14: --json, --ci and --help never consume the URL: whatever the order
\* of the URL and these flags, parseArgs yields the URL as _url and each
\* flag as true, so the run is not a missing-URL usage error and the URL
\* given is the one requested, with the flags in effect.
C14_FlagsNeverConsumeUrl ==
    pc # "start" /\ UrlAndBooleanFlags(argv) =>
        /\ parseArgs(argv) = ArgsOf(argv)
        /\ report # "usage"
        /\ requests # <<>> =>
              /\ requests[1] = UrlToString(NormalizeUrl(Positionals(argv)[1]))
              /\ ciMode = (\E i \in 1..Len(argv) : argv[i] = F_ci)
              /\ jsonOutput = (\E i \in 1..Len(argv) : argv[i] = F_json)

-----------------------------------------------------------------------------
(* validateTags alone, on the MetadataMaps of TagMaps *)

Absent == <<"(absent)">>

V_relImage == <<"/", "i">>
V_badImage == <<"/", "/">>
V_short == <<"a", "b">>
PageUrls == { A_url \o <<"/">>, A_url \o <<"/", "d", "/", "p">> }

\* width and height, as written in the page
DimensionPairs ==
    { <<Absent, Absent>>, <<<<"1", "2", "0", "0">>, Absent>>,
      <<<<"1", "5", "0">>, <<"3", "0", "0">>>>, <<<<"1", "2", "0", "0">>, <<"6", "3", "0">>>>,
      <<<<"2", "0", "0">>, <<"2", "0", "0">>>>, <<<<"1", "9", "9">>, <<"2", "0", "0">>>>,
      <<<<"2", "0", "0">>, <<"1", "9", "9">>>>, <<<<"a", "b", "c">>, <<"6", "3", "0">>>> }

MinorKeys == {"og:image:alt", "og:url", "og:type", "twitter:card", "canonical"}

TagChoices ==
    [ ogTitle : {Absent, <<>>, V_short, Repeat("a", 95), Repeat("a", 96)},
      ogDescription : {Absent, <<>>, V_desc, Repeat("d", 301)},
      ogImage : {Absent, <<>>, V_image, V_relImage, V_badImage},
      dims : DimensionPairs,
      title : {Absent, <<>>, V_title},
      description : {Absent, V_desc},
      twitter : BOOLEAN,
      minor : {{}, {"og:url"}, MinorKeys} ]

\* The MetadataMap of a choice: the keys whose value is not Absent.
TagsOf(c) ==
    LET all == [k \in {"og:title", "og:description", "og:image", "og:image:width",
                       "og:image:height", "title", "description", "twitter:title",
                       "twitter:image"} \cup MinorKeys |->
                  CASE k = "og:title" -> c.ogTitle
                    [] k = "og:description" -> c.ogDescription
                    [] k = "og:image" -> c.ogImage
                    [] k = "og:image:width" -> c.dims[1]
                    [] k = "og:image:height" -> c.dims[2]
                    [] k = "title" -> c.title
                    [] k = "description" -> c.description
                    [] k \in {"twitter:title", "twitter:image"} ->
                           IF c.twitter THEN V_short ELSE Absent
                    [] OTHER -> IF k \in c.minor THEN V_short ELSE Absent]
    IN  [k \in {x \in DOMAIN all : all[x] # Absent} |-> all[k]]

TagMaps == {TagsOf(c) : c \in TagChoices}

InitValidate ==
    /\ pc = "validateTags"
    /\ argv = <<>>
    /\ NoRun
    /\ NoFetch
    /\ doc = <<>>
    /\ tags \in TagMaps
    /\ pageUrl \in PageUrls
    /\ result = NoResult
    /\ NoDecode

\* validateTags(tags, url) is called: it returns the issues or throws.
Validate ==
    /\ pc = "validateTags"
    /\ result' = validateTags(tags, pageUrl)
    /\ pc' = IF result'.threw THEN "threw" ELSE "returned"
    /\ UNCHANGED <<argv, exitCode, report, errMsg, ciMode, jsonOutput, timeout, promise,
                   requests, redirects, phase, chunks, idle, stale, elapsed, doc, tags,
                   pageUrl, text, decoded>>

NextValidate == Validate

SpecValidate == InitValidate /\ [][NextValidate]_vars

Called == pc \in {"returned", "threw"}

\* The positions of the issues with this tag and severity.
IssuesWith(tag, severity) ==
    {i \in 1..Len(result.issues) :
        result.issues[i].tag = tag /\ result.issues[i].severity = severity}

IssuesTagged(tag) == {i \in 1..Len(result.issues) : result.issues[i].tag = tag}

\* C5: for a MetadataMap without og:title, validateTags returns a sequence
\* with exactly one issue tagged og:title; it has severity error and its fix
\* embeds the title value when title is present, else the placeholder
\* 'Your Page Title'.  (Present is what the validator takes for present: a
\* key with a non-empty value.)
C5_MissingOgTitle ==
    Called /\ ~Truthy(tags, "og:title") =>
        /\ pc = "returned"
        /\ Cardinality(IssuesTagged("og:title")) = 1
        /\ \A i \in IssuesTagged("og:title") :
              /\ result.issues[i].severity = "error"
              /\ result.issues[i].fix =
                     <<"<meta property=\"og:title\" content=\"">>
                     \o (IF Truthy(tags, "title") THEN tags["title"] ELSE <<"Your Page Title">>)
                     \o <<"\" />">>

\* A string of decimal digits, and its value.
IsInteger(s) == s # <<>> /\ \A i \in 1..Len(s) : s[i] \in DigitChars
RECURSIVE Decimal(_)
Decimal(s) == IF s = <<>> THEN 0 ELSE 10 * Decimal(SubSeq(s, 1, Len(s) - 1)) + DigitVal(s[Len(s)])

HasDimensions ==
    /\ {"og:image", "og:image:width", "og:image:height"} \subseteq DOMAIN tags
    /\ StartsWith(tags["og:image"], S_http)
    /\ IsInteger(tags["og:image:width"])
    /\ IsInteger(tags["og:image:height"])

\* C6: with an absolute og:image and integer og:image:width and
\* og:image:height, validateTags returns exactly one og:image warning when
\* the width or the height is below 200, and no og:image warning and no
\* missing-dimensions issue when both are at least 200.
C6_DimensionWarning ==
    Called /\ HasDimensions =>
        /\ pc = "returned"
        /\ IssuesTagged("og:image:width/height") = {}
        /\ Cardinality(IssuesWith("og:image", "warning")) =
              IF Decimal(tags["og:image:width"]) < 200 \/ Decimal(tags["og:image:height"]) < 200
              THEN 1 ELSE 0

C6_Witness ==
    /\ pc = "returned"
    /\ HasDimensions
    /\ tags["og:image:width"] = <<"1", "5", "0">>
    /\ tags["og:image:height"] = <<"3", "0", "0">>
    /\ Cardinality(IssuesWith("og:image", "warning")) = 1

\* C7: for a MetadataMap whose og:title has length n, validateTags emits an
\* og:title warning if and only if n > 95.
C7_TitleLengthBoundary ==
    Called /\ "og:title" \in DOMAIN tags =>
        (IssuesWith("og:title", "warning") # {} <=> Len(tags["og:title"]) > 95)

\* The (tag, severity) pairs of the rules, in the order of the rule table.
RuleTable ==
    << <<"og:title", "error">>, <<"og:title", "warning">>,
       <<"og:description", "error">>, <<"og:description", "warning">>,
       <<"og:image", "error">>, <<"og:image", "error">>,
       <<"og:image:width/height", "warning">>, <<"og:image", "warning">>,
       <<"og:image:alt", "info">>, <<"og:url", "warning">>, <<"og:type", "info">>,
       <<"twitter:card", "warning">>, <<"twitter:title", "error">>,
       <<"twitter:image", "warning">>, <<"title", "warning">>,
       <<"description", "info">>, <<"canonical", "info">> >>

IssuePairs == [i \in 1..Len(result.issues) |->
                  <<result.issues[i].tag, result.issues[i].severity>>]

\* s is t with some of its elements left out.
RECURSIVE IsSubsequence(_, _)
IsSubsequence(s, t) ==
    IF s = <<>> THEN TRUE
    ELSE IF t = <<>> THEN FALSE
    ELSE IF Head(s) = Head(t) THEN IsSubsequence(Tail(s), Tail(t))
    ELSE IsSubsequence(s, Tail(t))

\* C11: the (tag, severity) pairs of the issues validateTags returns are a
\* subsequence of the 17 rows of the rule table, in table order: every rule
\* contributes at most one issue and the issues are not sorted by severity.
C11_RuleTableOrder ==
    pc = "returned" => IsSubsequence(IssuePairs, RuleTable)

\* A returned sequence in which an error comes after a warning and an info,
\* and the dimension and alt-text rules of og:image have both fired.
C11_Witness ==
    /\ pc = "returned"
    /\ IssuesTagged("og:image:width/height") # {}
    /\ IssuesTagged("og:image:alt") # {}
    /\ \E i, j, k \in 1..Len(result.issues) :
          /\ i < k /\ j < k
          /\ result.issues[i].severity = "warning"
          /\ result.issues[j].severity = "info"
          /\ result.issues[k].severity = "error"

\* parseInt of the value is NaN.
NonNumeric(s) == parseInt(s).nan

NonNumericDimensions ==
    /\ Truthy(tags, "og:image")
    /\ Truthy(tags, "og:image:width")
    /\ Truthy(tags, "og:image:height")
    /\ NonNumeric(tags["og:image:width"]) \/ NonNumeric(tags["og:image:height"])

\* C12: with og:image, og:image:width and og:image:height present and a
\* width or height that does not parse as an integer, validateTags emits
\* the og:image dimension warning.
C12_NonNumericDimensionWarns ==
    pc = "returned" /\ NonNumericDimensions => IssuesWith("og:image", "warning") # {}

\* The three required keys are fit: og:title and og:description non-empty,
\* og:image non-empty and starting with 'http'.
RequiredOk ==
    /\ Truthy(tags, "og:title")
    /\ Truthy(tags, "og:description")
    /\ Truthy(tags, "og:image")
    /\ StartsWith(tags["og:image"], S_http)

\* The map without its keys of empty value.
StripEmpty(t) == [k \in {x \in DOMAIN t : t[x] # <<>>} |-> t[k]]

\* C13: when validateTags returns, no issue has severity error if and only
\* if og:title and og:description are non-empty and og:image is non-empty
\* and starts with 'http'; a twitter:title error comes only with an
\* og:title error; and a key of empty value counts as an absent key.
C13_ValidityOfThreeKeys ==
    pc = "returned" =>
        /\ ~HasError(result.issues) <=> RequiredOk
        /\ IssuesWith("twitter:title", "error") # {} => IssuesWith("og:title", "error") # {}
        /\ result = validateTags(StripEmpty(tags), pageUrl)

\* A valid map without twitter:title and with an empty title: issues are
\* returned, none of them an error.
C13_Witness ==
    /\ pc = "returned"
    /\ ~HasError(result.issues)
    /\ "twitter:title" \notin DOMAIN tags
    /\ "title" \in DOMAIN tags /\ tags["title"] = <<>>
    /\ IssuesWith("title", "warning") # {}

-----------------------------------------------------------------------------
(* parseHtml alone, on the documents of Documents *)

V_A == <<"A">>
V_B == <<"B", "&", "a", "m", "p", ";">>

\* The elements a document is made of: meta elements that repeat a key
\* (written property or name first, or content first), one without content,
\* one without key, and a title.
ElementPool ==
    { M("og:title", V_A), M("OG:Title", V_B),
      N("description", V_A), N("Description", V_B),
      Meta(<<Attr("content", V_B), Attr("name", <<"description">>)>>),
      Meta(<<Attr("property", <<"og:title">>)>>),
      Meta(<<Attr("content", V_A)>>),
      Title(V_title) }

\* A document has at most MaxElements elements.
MaxElements == 3
Documents == UNION {[1..n -> ElementPool] : n \in 0..MaxElements}

InitParse ==
    /\ pc = "parseHtml"
    /\ argv = <<>>
    /\ NoRun
    /\ NoFetch
    /\ doc \in Documents
    /\ tags = EmptyTags
    /\ pageUrl = <<>>
    /\ result = NoResult
    /\ NoDecode

\* parseHtml(html) is called and returns the MetadataMap.
Parse ==
    /\ pc = "parseHtml"
    /\ tags' = parseHtml(doc)
    /\ pc' = "parsed"
    /\ UNCHANGED <<argv, exitCode, report, errMsg, ciMode, jsonOutput, timeout, promise,
                   requests, redirects, phase, chunks, idle, stale, elapsed, doc,
                   pageUrl, result, text, decoded>>

NextParse == Parse

SpecParse == InitParse /\ [][NextParse]_vars

\* The positions of the meta elements of the document that have the key k
\* (in a property or name attribute, in any case) and a content attribute.
MetaWithKey(k) ==
    {i \in 1..Len(doc) :
        /\ doc[i].el = "meta"
        /\ \E a \in 1..Len(doc[i].attrs) :
              /\ doc[i].attrs[a].n \in {"property", "name"}
              /\ LowerAtom(doc[i].attrs[a].v[1]) = k
        /\ \E a \in 1..Len(doc[i].attrs) : doc[i].attrs[a].n = "content"}

ContentOf(e) == e.attrs[CHOOSE a \in 1..Len(e.attrs) : e.attrs[a].n = "content"].v

\* C9: the last occurrence in document order wins for every key: when two
\* or more meta elements have the same key (name="description" included) and
\* a content attribute, the MetadataMap holds for that key the decoded
\* content of the last of them.
C9_LastOccurrenceWins ==
    pc = "parsed" =>
        \A k \in {"og:title", "description"} :
            Cardinality(MetaWithKey(k)) >= 2 =>
                /\ k \in DOMAIN tags
                /\ tags[k] = decodeHtmlEntities(ContentOf(doc[LastIndex(MetaWithKey(k))]))

-----------------------------------------------------------------------------
(* decodeHtmlEntities alone, on the texts of Texts *)

\* A text is made of at most MaxPieces pieces: an ampersand, the rest of an
\* entity, or a letter.
MaxPieces == 3
Pieces ==
    { <<"&">>, Tail(E_amp), Tail(E_lt), Tail(E_gt), Tail(E_quot), Tail(E_39),
      Tail(E_x27), Tail(E_x2F), Tail(E_nbsp), <<"x">> }
Texts == {Concat(ps) : ps \in UNION {[1..n -> Pieces] : n \in 0..MaxPieces}}

InitDecode ==
    /\ pc = "decodeHtmlEntities"
    /\ argv = <<>>
    /\ NoRun
    /\ NoFetch
    /\ NoPage
    /\ text \in Texts
    /\ decoded = NotDecoded

\* decodeHtmlEntities(text) is called and returns.
Decode ==
    /\ pc = "decodeHtmlEntities"
    /\ decoded' = decodeHtmlEntities(text)
    /\ pc' = "decoded"
    /\ UNCHANGED <<argv, exitCode, report, errMsg, ciMode, jsonOutput, timeout, promise,
                   requests, redirects, phase, chunks, idle, stale, elapsed, doc, tags,
                   pageUrl, result, text>>

NextDecode == Decode

SpecDecode == InitDecode /\ [][NextDecode]_vars

\* One pass over the text: at each position an entity that starts there is
\* replaced by its character and the scan goes on after it; the characters
\* written are not read again.
RECURSIVE SinglePass(_)
SinglePass(s) ==
    IF s = <<>> THEN <<>>
    ELSE LET hits == {i \in 1..Len(Entities) : StartsWith(s, Entities[i][1])}
         IN  IF hits = {}
             THEN <<s[1]>> \o SinglePass(Tail(s))
             ELSE LET e == Entities[CHOOSE i \in hits : TRUE]
                  IN  e[2] \o SinglePass(Slice(s, Len(e[1]) + 1))

\* C10: entity decoding is single-pass: each entity of the input is replaced
\* once and the text a replacement produces is never decoded again, so a
\* double-encoded entity decodes to the singly-encoded entity text.
C10_SinglePassDecoding == pc = "decoded" => decoded = SinglePass(text)

=============================================================================
